---- MODULE Spec2Model ----
(***************************************************************************)
(* Model of src/plugin.js, the HlsQualitySelectorPlugin of                 *)
(* videojs-hls-quality-selector.                                           *)
(*                                                                         *)
(* One player is followed in full: its capabilities, its quality-level     *)
(* collection, the selector instance constructed on it and the button the  *)
(* selector owns.  Selectors constructed on other players are followed     *)
(* only through what they share with this one: the module-level `defaults` *)
(* object, which every constructor mutates and every instance keeps as its *)
(* `_options`.                                                             *)
(***************************************************************************)
EXTENDS Integers, Sequences, FiniteSets, TLC

VARIABLES
    defaults,        \* the module-level object `defaults`; every instance's _options is this object
    qualityLevels,   \* the player has the qualityLevels capability
    hls,             \* player.tech().hls is present
    levels,          \* player.qualityLevels().levels_
    constructed,     \* a selector instance exists on the player (player.hlsQualitySelector)
    subscribed,      \* onAddQualityLevel is bound to 'addqualitylevel'
    qualityButton,   \* this._qualityButton
    engine,          \* which Array.prototype.sort the build runs on
    uncaught         \* the error the last operation ended in, if any

vars == <<defaults, qualityLevels, hls, levels, constructed, subscribed,
          qualityButton, engine, uncaught>>

----------------------------------------------------------------------------
(* Bounds of the model.                                                    *)

MaxLevels == 3

ControlBarChildren == 3

----------------------------------------------------------------------------
(* JavaScript values.  A number is a non-negative integer written as its   *)
(* base-1000 digits, most significant first, without leading zeros, so     *)
(* that bitrates beyond 2^31 can be written.                               *)

Thousand == 1000

Num(d) == [t |-> "number", d |-> d, s |-> ""]

Str(s) == [t |-> "string", d |-> <<>>, s |-> s]

Undefined == [t |-> "undefined", d |-> <<>>, s |-> ""]

Zero == <<0>>

\* m * 1000^k for 0 <= m < 1000000
RECURSIVE Shift(_, _)
Shift(d, k) == IF k = 0 \/ d = Zero THEN d ELSE Shift(Append(d, 0), k - 1)

Digits(m) == IF m < Thousand THEN <<m>> ELSE <<m \div Thousand, m % Thousand>>

N(m) == Num(Digits(m))

\* ToBoolean
Truthy(v) ==
    CASE v.t = "number" -> v.d # Zero
      [] v.t = "string" -> v.s # ""
      [] OTHER -> FALSE

\* a || b
JsOr(a, b) == IF Truthy(a) THEN a ELSE b

\* a === b
StrictEquals(a, b) == a = b

DigitsLess(a, b) ==
    \/ Len(a) < Len(b)
    \/ /\ Len(a) = Len(b)
       /\ \E i \in 1..Len(a) :
            /\ a[i] < b[i]
            /\ \A j \in 1..(i - 1) : a[j] = b[j]

\* a < b on the values a level field can hold: two numbers compare
\* numerically, undefined converts to NaN and every comparison with it is false
JsLess(a, b) == a.t = "number" /\ b.t = "number" /\ DigitsLess(a.d, b.d)

\* String(n) for a number below 1e21
Pad3(n) ==
    IF n < 10 THEN "00" \o ToString(n)
    ELSE IF n < 100 THEN "0" \o ToString(n)
    ELSE ToString(n)

RECURSIVE PadAll(_)
PadAll(d) == IF d = <<>> THEN "" ELSE Pad3(Head(d)) \o PadAll(Tail(d))

DigitsToString(d) == ToString(Head(d)) \o PadAll(Tail(d))

\* String(v), as string concatenation computes it
JsToString(v) ==
    CASE v.t = "number" -> DigitsToString(v.d)
      [] v.t = "string" -> v.s
      [] OTHER -> "undefined"

----------------------------------------------------------------------------
(* Quality levels.                                                         *)

Level(h, b, w) == [height |-> h, bitrate |-> b, width |-> w, enabled |-> TRUE]

\* the renditions the host may add to the collection
Renditions ==
    { Level(N(240), Undefined, Undefined),
      Level(N(720), N(2500000), N(1280)),
      Level(N(720), Num(Shift(<<1>>, 3)), N(1280)),
      Level(Undefined, N(0), Undefined) }

IdentifyByValues == {"height", "bitrate", "width"}

\* level[name]
Field(level, name) ==
    CASE name = "height" -> level.height
      [] name = "bitrate" -> level.bitrate
      [] name = "width" -> level.width
      [] OTHER -> Undefined

----------------------------------------------------------------------------
(* getIdentifierFromLevel                                                  *)

mags == <<"", "k", "M", "G", "T">>

\* Math.floor(value / 1000^mag): the digits left of the last mag ones
FloorScaled(d, mag) == IF Len(d) > mag THEN SubSeq(d, 1, Len(d) - mag) ELSE Zero

\* Math.floor(value) > 1e3
ExceedsThousand(d) ==
    \/ Len(d) >= 3
    \/ Len(d) = 2 /\ (d[1] > 1 \/ d[2] > 0)

\* the while loop: the value of mag when it ends
RECURSIVE Scalings(_, _)
Scalings(d, mag) ==
    IF ExceedsThousand(FloorScaled(d, mag)) /\ mag < Len(mags)
    THEN Scalings(d, mag + 1)
    ELSE mag

\* mags[mag] inside a string concatenation
MagSuffix(mag) == IF mag < Len(mags) THEN mags[mag + 1] ELSE "undefined"

\* case 'bitrate'
FormatBitrate(value) ==
    IF value.t = "number"
    THEN LET mag == Scalings(value.d, 0)
         IN  Str(DigitsToString(FloorScaled(value.d, mag)) \o MagSuffix(mag) \o "bps")
    ELSE Str("NaN" \o mags[1] \o "bps")

\* case 'height'
FormatHeight(value) == Str(JsToString(value) \o "p")

\* the derivation falling back to the height for an absent field only (?? for ||)
getIdentifierFromLevelNullish(level, format, identifyBy) ==
    LET value == IF Field(level, identifyBy) = Undefined
                 THEN level.height
                 ELSE Field(level, identifyBy)
    IN  IF format
        THEN CASE identifyBy = "bitrate" -> FormatBitrate(value)
               [] identifyBy = "height" -> FormatHeight(value)
               [] OTHER -> value
        ELSE value

getIdentifierFromLevel(level, format, identifyBy) ==
    LET value == JsOr(Field(level, identifyBy), level.height)
    IN  IF format
        THEN CASE identifyBy = "bitrate" -> FormatBitrate(value)
               [] identifyBy = "height" -> FormatHeight(value)
               [] OTHER -> value
        ELSE value

----------------------------------------------------------------------------
(* onAddQualityLevel                                                       *)

\* new ConcreteMenuItem(player, item, this._qualityButton, this); a property
\* the item literal does not set reads as FALSE
getQualityMenuItem(label, value, selected) ==
    [item |-> [label |-> label, value |-> value, selected |-> selected]]

\* typeof of a menu item
TypeOf(menuItem) == "object"

\* the comparator handed to levelItems.sort
Comparator(current, next) ==
    IF TypeOf(current) # "object" \/ TypeOf(next) # "object" THEN -1
    ELSE IF JsLess(current.item.value, next.item.value) THEN -1
    ELSE IF JsLess(next.item.value, current.item.value) THEN 1
    ELSE 0

\* the loop with the seen-before test made against the formatted identifier
RECURSIVE CollectLevelItemsByLabel(_, _, _, _)
CollectLevelItemsByLabel(levels_, i, levelItems, identifyBy) ==
    IF i > Len(levels_) THEN levelItems
    ELSE IF { k \in 1..Len(levelItems) :
                StrictEquals(levelItems[k].item.value,
                             getIdentifierFromLevel(levels_[i], TRUE, identifyBy)) } = {}
    THEN CollectLevelItemsByLabel(levels_, i + 1,
            Append(levelItems,
                   getQualityMenuItem(getIdentifierFromLevel(levels_[i], TRUE, identifyBy),
                                      getIdentifierFromLevel(levels_[i], FALSE, identifyBy),
                                      FALSE)),
            identifyBy)
    ELSE CollectLevelItemsByLabel(levels_, i + 1, levelItems, identifyBy)

\* the loop marking an item selected when its level is enabled
RECURSIVE CollectLevelItemsSelectedByEnabled(_, _, _, _)
CollectLevelItemsSelectedByEnabled(levels_, i, levelItems, identifyBy) ==
    IF i > Len(levels_) THEN levelItems
    ELSE IF { k \in 1..Len(levelItems) :
                StrictEquals(levelItems[k].item.value,
                             getIdentifierFromLevel(levels_[i], FALSE, identifyBy)) } = {}
    THEN CollectLevelItemsSelectedByEnabled(levels_, i + 1,
            Append(levelItems,
                   getQualityMenuItem(getIdentifierFromLevel(levels_[i], TRUE, identifyBy),
                                      getIdentifierFromLevel(levels_[i], FALSE, identifyBy),
                                      levels_[i].enabled)),
            identifyBy)
    ELSE CollectLevelItemsSelectedByEnabled(levels_, i + 1, levelItems, identifyBy)

\* the loop storing the formatted identifier as the item's value
RECURSIVE CollectLevelItemsLabelAsValue(_, _, _, _)
CollectLevelItemsLabelAsValue(levels_, i, levelItems, identifyBy) ==
    IF i > Len(levels_) THEN levelItems
    ELSE IF { k \in 1..Len(levelItems) :
                StrictEquals(levelItems[k].item.value,
                             getIdentifierFromLevel(levels_[i], TRUE, identifyBy)) } = {}
    THEN CollectLevelItemsLabelAsValue(levels_, i + 1,
            Append(levelItems,
                   getQualityMenuItem(getIdentifierFromLevel(levels_[i], TRUE, identifyBy),
                                      getIdentifierFromLevel(levels_[i], TRUE, identifyBy),
                                      FALSE)),
            identifyBy)
    ELSE CollectLevelItemsLabelAsValue(levels_, i + 1, levelItems, identifyBy)

\* the for loop over levels: one item per first occurrence of an identifier
RECURSIVE CollectLevelItems(_, _, _, _)
CollectLevelItems(levels_, i, levelItems, identifyBy) ==
    IF i > Len(levels_) THEN levelItems
    ELSE IF { k \in 1..Len(levelItems) :
                StrictEquals(levelItems[k].item.value,
                             getIdentifierFromLevel(levels_[i], FALSE, identifyBy)) } = {}
    THEN CollectLevelItems(levels_, i + 1,
            Append(levelItems,
                   getQualityMenuItem(getIdentifierFromLevel(levels_[i], TRUE, identifyBy),
                                      getIdentifierFromLevel(levels_[i], FALSE, identifyBy),
                                      FALSE)),
            identifyBy)
    ELSE CollectLevelItems(levels_, i + 1, levelItems, identifyBy)

InsertAt(s, x, j) == SubSeq(s, 1, j) \o <<x>> \o SubSeq(s, j + 1, Len(s))

\* insertion sort: x moves left past every element the comparator puts after it
RECURSIVE LinearPosition(_, _, _)
LinearPosition(s, x, j) ==
    IF j >= 1 /\ Comparator(s[j], x) > 0 THEN LinearPosition(s, x, j - 1) ELSE j

\* binary insertion sort: the slot is found by bisection
RECURSIVE BinaryPosition(_, _, _, _)
BinaryPosition(s, x, left, right) ==
    IF left < right
    THEN LET mid == left + ((right - left) \div 2)
         IN  IF Comparator(x, s[mid + 1]) < 0
             THEN BinaryPosition(s, x, left, mid)
             ELSE BinaryPosition(s, x, mid + 1, right)
    ELSE left

Engines == {"insertion", "binaryInsertion"}

\* Array.prototype.sort with the comparator above.  The comparator is not a
\* consistent one when an identifier is undefined, and the order is then
\* whatever the engine's algorithm makes of it.
RECURSIVE SortInto(_, _, _)
SortInto(sorted, rest, eng) ==
    IF rest = <<>> THEN sorted
    ELSE LET x == Head(rest)
             j == IF eng = "insertion"
                  THEN LinearPosition(sorted, x, Len(sorted))
                  ELSE BinaryPosition(sorted, x, 0, Len(sorted))
         IN  SortInto(InsertAt(sorted, x, j), Tail(rest), eng)

Sort(levelItems, eng) == SortInto(<<>>, levelItems, eng)

\* the handler with the "auto" item put in front (unshift for push)
onAddQualityLevelAutoFirst(levels_, identifyBy, eng) ==
    <<getQualityMenuItem(Str("Auto"), Str("auto"), TRUE)>>
        \o SortInto(<<>>, CollectLevelItems(levels_, 1, <<>>, identifyBy), eng)

\* the handler reading the newly added level alone
onAddQualityLevelLastOnly(levels_, identifyBy, eng) ==
    Append(SortInto(<<>>,
                    CollectLevelItems(levels_,
                                      IF Len(levels_) = 0 THEN 1 ELSE Len(levels_),
                                      <<>>, identifyBy),
                    eng),
           getQualityMenuItem(Str("Auto"), Str("auto"), TRUE))

\* the list the handler builds: levelItems after the final push
onAddQualityLevel(levels_, identifyBy, eng) ==
    Append(Sort(CollectLevelItems(levels_, 1, <<>>, identifyBy), eng),
           getQualityMenuItem(Str("Auto"), Str("auto"), TRUE))

----------------------------------------------------------------------------
(* The plugin function, the constructor and the button.                    *)

DefaultPositionIndex == -2

\* const defaults = {...}
DefaultsObject ==
    [positionIndex |-> DefaultPositionIndex, identifyBy |-> "height", parent |-> "none"]

\* the options an integrator passes: each key is absent ({}) or set ({v})
OptionsInputs ==
    [identifyBy : {{}} \cup {{f} : f \in IdentifyByValues},
     positionIndex : {{}, {-1}}]

Pick(option, current) == IF option = {} THEN current ELSE CHOOSE v \in option : TRUE

\* Object.assign(defaults, videojs.mergeOptions(defaults, options)) followed by
\* this._options.parent = player.controlBar: the keys the options set are
\* written into the shared object, the others keep the value it holds
AssignOptions(current, options, controlBar) ==
    [positionIndex |-> Pick(options.positionIndex, current.positionIndex),
     identifyBy |-> Pick(options.identifyBy, current.identifyBy),
     parent |-> controlBar]

NoButton ==
    [exists |-> FALSE, placementIndex |-> 0, pressed |-> FALSE,
     installed |-> FALSE, items |-> <<>>]

\* createQualityButton: the button is added at children().length + positionIndex
createQualityButton(options) ==
    [exists |-> TRUE, placementIndex |-> ControlBarChildren + options.positionIndex,
     pressed |-> FALSE, installed |-> FALSE, items |-> <<>>]

\* this._qualityButton.createItems = () => levelItems; this._qualityButton.update()
InstallItems(button, levelItems) ==
    IF button.exists
    THEN [button EXCEPT !.installed = TRUE, !.items = levelItems]
    ELSE button

\* ConcreteButton.unpressButton
unpressButton(button) == [button EXCEPT !.pressed = FALSE]

Init ==
    /\ defaults = DefaultsObject
    /\ qualityLevels \in BOOLEAN
    /\ hls \in BOOLEAN
    /\ levels = <<>>
    /\ constructed = FALSE
    /\ subscribed = FALSE
    /\ qualityButton = NoButton
    /\ engine \in Engines
    /\ uncaught = "none"

\* player.hlsQualitySelector(options) on the player, once it is ready
Construct(options) ==
    /\ ~constructed
    /\ defaults' = AssignOptions(defaults, options, "controlBar")
    /\ constructed' = TRUE
    /\ IF qualityLevels /\ hls
       THEN /\ qualityButton' = createQualityButton(defaults')
            /\ subscribed' = TRUE
       ELSE /\ qualityButton' = NoButton
            /\ subscribed' = FALSE
    /\ uncaught' = "none"
    /\ UNCHANGED <<qualityLevels, hls, levels, engine>>

\* player.hlsQualitySelector(options) on another player of the page
ConstructOnOtherPlayer(options) ==
    /\ defaults' = AssignOptions(defaults, options, "otherControlBar")
    /\ defaults' # defaults
    /\ UNCHANGED <<qualityLevels, hls, levels, constructed, subscribed,
                   qualityButton, engine, uncaught>>

\* the host's addQualityLevel: the level joins the collection and
\* 'addqualitylevel' is triggered, which runs the handler if it is bound
AddQualityLevel(rendition) ==
    /\ qualityLevels
    /\ Len(levels) < MaxLevels
    /\ levels' = Append(levels, rendition)
    /\ qualityButton' =
         IF subscribed
         THEN InstallItems(qualityButton,
                           onAddQualityLevel(levels', defaults.identifyBy, engine))
         ELSE qualityButton
    /\ uncaught' = "none"
    /\ UNCHANGED <<defaults, qualityLevels, hls, constructed, subscribed, engine>>

\* the event on an unchanged collection, with a handler that also enables
\* every level again when it marks Auto as selected
TriggerAddQualityLevelResetsFlags ==
    /\ subscribed
    /\ qualityButton' =
         InstallItems(qualityButton, onAddQualityLevel(levels, defaults.identifyBy, engine))
    /\ levels' = [i \in 1..Len(levels) |-> [levels[i] EXCEPT !.enabled = TRUE]]
    /\ uncaught' = "none"
    /\ UNCHANGED <<defaults, qualityLevels, hls, constructed, subscribed, engine>>

\* 'addqualitylevel' triggered on an unchanged collection
TriggerAddQualityLevel ==
    /\ subscribed
    /\ qualityButton' =
         InstallItems(qualityButton, onAddQualityLevel(levels, defaults.identifyBy, engine))
    /\ uncaught' = "none"
    /\ UNCHANGED <<defaults, qualityLevels, hls, levels, constructed, subscribed, engine>>

\* the loop without the "auto" disjunct
SetEnabledAutoForgotten(levels_, identifier, identifyBy) ==
    [i \in 1..Len(levels_) |->
        [levels_[i] EXCEPT !.enabled =
            StrictEquals(getIdentifierFromLevel(levels_[i], FALSE, identifyBy), identifier)]]

\* the loop enabling the matching levels and leaving the others as they were
SetEnabledNeverDisables(levels_, identifier, identifyBy) ==
    [i \in 1..Len(levels_) |->
        [levels_[i] EXCEPT !.enabled =
            \/ levels_[i].enabled
            \/ StrictEquals(getIdentifierFromLevel(levels_[i], FALSE, identifyBy), identifier)
            \/ StrictEquals(identifier, Str("auto"))]]

\* the loop of setQuality over the collection
SetEnabled(levels_, identifier, identifyBy) ==
    [i \in 1..Len(levels_) |->
        [levels_[i] EXCEPT !.enabled =
            \/ StrictEquals(getIdentifierFromLevel(levels_[i], FALSE, identifyBy), identifier)
            \/ StrictEquals(identifier, Str("auto"))]]

\* the identifiers setQuality is called with
IdentifierInputs ==
    {Str("auto"), Undefined, N(240), N(720)}

\* player.hlsQualitySelector.setQuality(identifier)
setQuality(identifier) ==
    /\ constructed
    /\ IF ~qualityLevels
       THEN \* this.player.qualityLevels is not a function
            /\ uncaught' = "TypeError"
            /\ UNCHANGED <<levels, qualityButton>>
       ELSE /\ levels' = SetEnabled(levels, identifier, defaults.identifyBy)
            /\ IF qualityButton.exists
               THEN /\ qualityButton' = unpressButton(qualityButton)
                    /\ uncaught' = "none"
               ELSE \* this._qualityButton is undefined
                    /\ uncaught' = "TypeError"
                    /\ UNCHANGED qualityButton
    /\ UNCHANGED <<defaults, qualityLevels, hls, constructed, subscribed, engine>>

\* the user opens the menu: the button is pressed
PressButton ==
    /\ qualityButton.exists
    /\ ~qualityButton.pressed
    /\ qualityButton' = [qualityButton EXCEPT !.pressed = TRUE]
    /\ UNCHANGED <<defaults, qualityLevels, hls, levels, constructed, subscribed,
                   engine, uncaught>>

\* an HLS source is loaded after construction: the handle of the tech appears
SourceChange ==
    /\ constructed
    /\ ~hls
    /\ hls' = TRUE
    /\ UNCHANGED <<defaults, qualityLevels, levels, constructed, subscribed,
                   qualityButton, engine, uncaught>>

Next ==
    \/ \E options \in OptionsInputs : Construct(options)
    \/ \E options \in OptionsInputs : ConstructOnOtherPlayer(options)
    \/ \E rendition \in Renditions : AddQualityLevel(rendition)
    \/ TriggerAddQualityLevel
    \/ \E identifier \in IdentifierInputs : setQuality(identifier)
    \/ PressButton
    \/ SourceChange

Spec == Init /\ [][Next]_vars

----------------------------------------------------------------------------
(* The formatter on its own: an active selector identifying by bitrate, on *)
(* a collection of one level whose bitrate is drawn from BitrateInputs;    *)
(* the handler then labels it.  The inputs are m * 1000^k, which a double  *)
(* holds exactly and divides by 1000 without rounding.                     *)

MaxShift == 5

BitrateMantissas == {0, 1, 2, 500, 999, 1001, 1500, 2000, 2500}

BitrateInputs == { Shift(Digits(m), k) : m \in BitrateMantissas, k \in 0..MaxShift }

InitFormat ==
    /\ defaults = [DefaultsObject EXCEPT !.identifyBy = "bitrate", !.parent = "controlBar"]
    /\ qualityLevels = TRUE
    /\ hls = TRUE
    /\ \E b \in BitrateInputs : levels = <<Level(N(720), Num(b), Undefined)>>
    /\ constructed = TRUE
    /\ subscribed = TRUE
    /\ qualityButton = createQualityButton(defaults)
    /\ engine \in Engines
    /\ uncaught = "none"

NextFormat == TriggerAddQualityLevel

SpecFormat == InitFormat /\ [][NextFormat]_vars

----------------------------------------------------------------------------
(* One selector by itself: the player's own construction, level additions  *)
(* with their events, setQuality calls and the user pressing the button.   *)

NextOwn ==
    \/ \E options \in OptionsInputs : Construct(options)
    \/ \E rendition \in Renditions : AddQualityLevel(rendition)
    \/ \E identifier \in IdentifierInputs : setQuality(identifier)
    \/ PressButton

SpecOwn == Init /\ [][NextOwn]_vars

----------------------------------------------------------------------------
(* Properties.                                                             *)

Auto == Str("auto")

\* the selector is active: the gate passed at construction and the button exists
Active == constructed /\ qualityButton.exists

Installed == qualityButton.installed

Items == qualityButton.items

\* the positions of the real (non-auto) descriptors of a list
RealPositions(list) == { i \in 1..Len(list) : list[i].item.value # Auto }

\* the level's identifier under the discriminator the selector reads now
DerivedIdentifier(level) == JsOr(Field(level, defaults.identifyBy), level.height)

\* C1: after setQuality(identifier) on an active selector every level is
\* enabled exactly when its derived identifier equals the identifier or the
\* identifier is "auto", whatever the flags were before.
C1_SetQualityFlags ==
    [][(Active /\ defaults' = defaults /\ Len(levels') = Len(levels)) =>
          \A identifier \in IdentifierInputs :
              setQuality(identifier) =>
                  \A i \in 1..Len(levels) :
                      levels'[i].enabled =
                          (DerivedIdentifier(levels[i]) = identifier \/ identifier = Auto)]_vars

\* three levels, the middle one alone enabled: setQuality picked it
C1_Witness ==
    /\ Active
    /\ Len(levels) = 3
    /\ ~levels[1].enabled /\ levels[2].enabled /\ ~levels[3].enabled
    /\ uncaught = "none"

\* C2: no installed menu-item list holds two real descriptors of equal value.
C2_NoDuplicateValues ==
    Installed =>
        \A i, j \in RealPositions(Items) :
            i # j => Items[i].item.value # Items[j].item.value

\* two levels both lacking the bitrate and sharing the height fallback, under
\* identifyBy = "bitrate", were reconciled into one descriptor
C2_Witness ==
    /\ Installed
    /\ defaults.identifyBy = "bitrate"
    /\ Len(levels) = 3
    /\ levels[1].bitrate = Undefined /\ levels[3].bitrate = Undefined
    /\ levels[1].height = levels[3].height /\ levels[1].height # Undefined
    /\ levels[2].bitrate = N(2500000)
    /\ Len(Items) = 3
    /\ Items[1].item.value = levels[1].height

\* C3: every installed list holds exactly one "auto" descriptor, and it is the
\* last element; on an empty collection the list is exactly the one descriptor.
C3_AutoLast ==
    Installed =>
        /\ Len(Items) >= 1
        /\ Items[Len(Items)].item.value = Auto
        /\ Cardinality({ i \in 1..Len(Items) : Items[i].item.value = Auto }) = 1
        /\ levels = <<>> => Len(Items) = 1

\* the handler ran on an empty collection
C3_Witness == Installed /\ levels = <<>> /\ Len(Items) = 1

\* C4: in every installed list the real descriptors are in strictly ascending
\* order of value, whatever the levels' order and also when a level has
\* neither the discriminator field nor a height.
C4_StrictlyAscending ==
    Installed =>
        \A i, j \in RealPositions(Items) :
            i < j => JsLess(Items[i].item.value, Items[j].item.value)

\* the list installed for heights 720, undefined, 240 in that order
C4_FailingInput ==
    /\ Installed
    /\ defaults.identifyBy = "height"
    /\ [i \in 1..Len(Items) |-> Items[i].item.value] = <<N(720), Undefined, N(240), Auto>>

\* C5: a selector whose gate failed at construction has no button and no
\* subscription, and no later event or call changes the menu or any level's
\* enabled flag, also when the HLS handle appears later.
C5_InertStaysInert ==
    [][(constructed /\ ~qualityButton.exists) =>
          /\ qualityButton' = qualityButton
          /\ ~subscribed /\ ~subscribed'
          /\ \A i \in 1..Len(levels) :
                Len(levels') >= i /\ levels'[i].enabled = levels[i].enabled]_vars

\* the value of floor(value / 1000^k) paired with the k-th suffix
ScaledLabel(d, k) == Str(DigitsToString(FloorScaled(d, k)) \o mags[k + 1] \o "bps")

\* C6: by bitrate, 2,500,000 is labelled "2Mbps", 999 "999bps" and
\* 1,000,000,000 "1Gbps"; in general the label is the floor of the value
\* divided by 1000 as often as the loop asks, with the suffix of that magnitude.
C6_BitrateLabels ==
    Installed =>
        \A i \in RealPositions(Items) :
            LET v == Items[i].item.value
                l == Items[i].item.label
            IN  /\ v = N(2500000) => l = Str("2Mbps")
                /\ v = N(999) => l = Str("999bps")
                /\ v = Num(Shift(<<1>>, 3)) => l = Str("1Gbps")
                /\ Len(v.d) <= Len(mags) =>
                      \E k \in 0..(Len(mags) - 1) :
                          /\ l = ScaledLabel(v.d, k)
                          /\ ~ExceedsThousand(FloorScaled(v.d, k))
                          /\ k > 0 => ExceedsThousand(FloorScaled(v.d, k - 1))

\* C7: by bitrate, every value is divided at most 4 times, so the label is an
\* integer followed by one of the five suffixes and "bps".
C7_SuffixWithinList ==
    Installed =>
        \A i \in RealPositions(Items) :
            \E k \in 0..(Len(mags) - 1) :
                Items[i].item.label = ScaledLabel(Items[i].item.value.d, k)

\* C8: on an active selector, setQuality with an identifier that matches no
\* level ends without an error, with every level disabled and the button
\* unpressed.
C8_NoMatchDisablesAll ==
    [][(Active /\ defaults' = defaults /\ Len(levels') = Len(levels)) =>
          \A identifier \in IdentifierInputs \ {Auto} :
              (/\ \A i \in 1..Len(levels) : DerivedIdentifier(levels[i]) # identifier
               /\ setQuality(identifier)) =>
                  /\ uncaught' = "none"
                  /\ \A i \in 1..Len(levels') : ~levels'[i].enabled
                  /\ ~qualityButton'.pressed]_vars

\* levels exist, all are disabled, and the button is unpressed
C8_Witness ==
    /\ Active
    /\ Len(levels) = 2
    /\ \A i \in 1..Len(levels) : ~levels[i].enabled
    /\ ~qualityButton.pressed
    /\ uncaught = "none"

\* C9: a selector constructed without identifyBy identifies by height, and one
\* constructed without positionIndex is placed at -2 from the end, whatever
\* was constructed before on other players.
C9_DefaultsApply ==
    [][\A options \in OptionsInputs :
          Construct(options) =>
              /\ options.identifyBy = {} => defaults'.identifyBy = "height"
              /\ options.positionIndex = {} =>
                    /\ defaults'.positionIndex = DefaultPositionIndex
                    /\ qualityButton'.exists =>
                          qualityButton'.placementIndex =
                              ControlBarChildren + DefaultPositionIndex]_vars

\* the collection holds the same levels before and after the step
SameCollection ==
    /\ Len(levels') = Len(levels)
    /\ \A i \in 1..Len(levels) :
          [levels'[i] EXCEPT !.enabled = TRUE] = [levels[i] EXCEPT !.enabled = TRUE]

\* C10: for a fixed collection, every run of the handler installs the same
\* list of descriptors, whatever happens between two runs.
C10_Deterministic ==
    [][(Installed /\ Installed' /\ SameCollection) => Items' = Items]_vars

\* C11: no public operation ends in an uncaught error, whatever the state,
\* the identifier and the collection, also on a selector whose gate failed.
C11_NoUncaughtError == uncaught = "none"

\* a step in which the handler ran on the bound selector and installed a list:
\* the collection grew, or the installed list changed, or a first list came
HandlerStep ==
    /\ subscribed
    /\ defaults' = defaults
    /\ qualityButton'.installed
    /\ \/ Len(levels') # Len(levels)
       \/ ~qualityButton.installed
       \/ qualityButton'.items # qualityButton.items

\* C12: after every level-added event handled by an active selector the real
\* values of the installed list are exactly the derived identifiers of all
\* the levels now in the collection, not of the added level alone.
C12_MenuInSync ==
    [][HandlerStep =>
          { qualityButton'.items[i].item.value : i \in RealPositions(qualityButton'.items) }
              = { DerivedIdentifier(levels'[k]) : k \in 1..Len(levels') }]_vars

\* three levels and a list holding the identifier of each of them
C12_Witness ==
    /\ Installed
    /\ Len(levels) = 3
    /\ Len(Items) = 4
    /\ { Items[i].item.value : i \in RealPositions(Items) }
           = { DerivedIdentifier(levels[k]) : k \in 1..Len(levels) }

\* the installed menu of a button
MenuOf(button) == <<button.installed, button.items>>

\* the step is a run of the level-added handler
HandlerRan == TriggerAddQualityLevel \/ \E rendition \in Renditions : AddQualityLevel(rendition)

\* C13: the handler changes no level's enabled flag and removes no level, and
\* only the handler changes the installed menu; setQuality changes the enabled
\* flags and the button's pressed state, and nothing else.
C13_Frame ==
    [][/\ MenuOf(qualityButton') # MenuOf(qualityButton) => HandlerRan
       /\ (levels' # levels /\ HandlerRan) =>
              /\ Len(levels') >= Len(levels)
              /\ SubSeq(levels', 1, Len(levels)) = levels
       /\ (levels' # levels \/ qualityButton' # qualityButton) =>
              \A identifier \in IdentifierInputs :
                  setQuality(identifier) =>
                      /\ MenuOf(qualityButton') = MenuOf(qualityButton)
                      /\ qualityButton'.exists = qualityButton.exists
                      /\ qualityButton'.placementIndex = qualityButton.placementIndex
                      /\ SameCollection
                      /\ defaults' = defaults /\ subscribed' = subscribed]_vars

\* a list was installed for two levels and setQuality then disabled one of them
C13_Witness ==
    /\ Installed
    /\ Len(levels) = 2
    /\ Len(Items) = 3
    /\ levels[1].enabled /\ ~levels[2].enabled
    /\ uncaught = "none"

\* the discriminator field when it is present and not falsy, else the height
ExpectedIdentifier(level, identifyBy) ==
    LET field == Field(level, identifyBy)
    IN  IF field = Undefined \/ field = Num(Zero) \/ field = Str("")
        THEN level.height
        ELSE field

\* the formatting of a value under a discriminator
ExpectedLabel(value, identifyBy) ==
    CASE identifyBy = "bitrate" -> FormatBitrate(value)
      [] identifyBy = "height" -> Str(JsToString(value) \o "p")
      [] OTHER -> value

\* C14: a level's identifier is its discriminator field when that is present
\* and not falsy, and its height otherwise (so for 0 and for a missing field);
\* the derivation never fails, and every real descriptor's label is the
\* formatting of that descriptor's value.
C14_IdentifierAndLabel ==
    [][HandlerStep =>
          LET list == qualityButton'.items
          IN  /\ uncaught' = "none"
              /\ \A k \in 1..Len(levels') :
                    \E i \in RealPositions(list) :
                        list[i].item.value =
                            ExpectedIdentifier(levels'[k], defaults.identifyBy)
              /\ \A i \in RealPositions(list) :
                    /\ \E k \in 1..Len(levels') :
                          list[i].item.value =
                              ExpectedIdentifier(levels'[k], defaults.identifyBy)
                    /\ list[i].item.label =
                          ExpectedLabel(list[i].item.value, defaults.identifyBy)]_vars

\* by bitrate, a level with bitrate 0 and no height and a level without
\* bitrate and height 240 were given the identifiers undefined and 240
C14_Witness ==
    /\ Installed
    /\ defaults.identifyBy = "bitrate"
    /\ Len(levels) = 2
    /\ levels[1].bitrate = Num(Zero) /\ levels[1].height = Undefined
    /\ levels[2].bitrate = Undefined /\ levels[2].height = N(240)
    /\ Len(Items) = 3
    /\ \E i \in RealPositions(Items) :
          Items[i].item.value = N(240) /\ Items[i].item.label = Str("240bps")
    /\ \E i \in RealPositions(Items) : Items[i].item.value = Undefined

\* C15: in every installed list the "auto" descriptor is the only one built
\* with selected = true, whatever identifier setQuality was last given.
C15_OnlyAutoSelected ==
    Installed =>
        \A i \in 1..Len(Items) :
            Items[i].item.selected = (Items[i].item.value = Auto)

\* setQuality had disabled the second of two levels when a third level, of
\* another identifier, was added and the list rebuilt
C15_Witness ==
    /\ Installed
    /\ Len(levels) = 3
    /\ Len(Items) = 4
    /\ levels[1].enabled /\ ~levels[2].enabled /\ levels[3].enabled
    /\ levels[1].height = N(240)
    /\ levels[2].height = Undefined
    /\ levels[3].height = N(720)
    /\ Items[Len(Items)].item.selected

\* C16: after level additions and setQuality calls on an active selector,
\* setQuality with the value of any descriptor of the installed list leaves at
\* least one level enabled: no identifier of the menu disables every level.
C16_MenuValueKeepsALevel ==
    Installed =>
        \A i \in 1..Len(Items) :
            \E k \in 1..Len(levels) :
                SetEnabled(levels, Items[i].item.value, defaults.identifyBy)[k].enabled

\* setQuality was called with the menu's value 720: the levels of that
\* identifier are the enabled ones, the others are disabled
C16_Witness ==
    /\ Installed
    /\ Len(levels) = 3
    /\ \E i \in RealPositions(Items) : Items[i].item.value = N(720)
    /\ \A k \in 1..Len(levels) :
          levels[k].enabled = (DerivedIdentifier(levels[k]) = N(720))
    /\ \E k \in 1..Len(levels) : levels[k].enabled
    /\ \E k \in 1..Len(levels) : ~levels[k].enabled

\* C17: once the selector is constructed, no later step (another player's
\* construction included) changes the discriminator field or the control-bar
\* parent that its handler and setQuality read from this._options.
C17_InstanceIsolation ==
    [][constructed =>
          /\ defaults'.identifyBy = defaults.identifyBy
          /\ defaults'.parent = defaults.parent]_vars

====
